---- MODULE Spec2Model ----
(***************************************************************************)
(* A model of BinaryParser (src/src/lib.rs): a growable byte buffer with a *)
(* cursor, a stack of pointer bases, a queue of scheduled (deferred)       *)
(* pointer writes and an endianness flag.  Every method of the type is an  *)
(* operator from a parser value to a result; the actions apply them the    *)
(* way a caller would.  Closures handed to write_pointer / read_pointer    *)
(* are small programs (sequences of calls on the parser they receive).     *)
(***************************************************************************)
EXTENDS Integers, Sequences, FiniteSets, TLC

VARIABLES parser, owned, last, steps, script, sub

vars == <<parser, owned, last, steps, script, sub>>

(***************************************************************************)
(* Bounds of the model.                                                    *)
(***************************************************************************)
\* calls a caller makes on one parser in the writer machine
MaxSteps == 4
\* length of the buffers the reader machine starts from
MaxBufLen == 5
\* primitive writes of one round trip
MaxOps == 2
\* calls a caller makes in the alignment machine
MaxAlignSteps == 2

MaxSubOps == 2

(***************************************************************************)
(* Values.                                                                 *)
(***************************************************************************)
Last(s) == s[Len(s)]

RECURSIVE Zeros(_)
Zeros(n) == IF n <= 0 THEN <<>> ELSE <<0>> \o Zeros(n - 1)

RECURSIVE Reverse(_)
Reverse(s) == IF s = <<>> THEN <<>> ELSE Reverse(Tail(s)) \o <<Head(s)>>

\* BinaryParser::new: empty buffer, position 0, no base, no scheduled write,
\* little endian.
new == [buf |-> <<>>, pos |-> 0, bases |-> <<>>, scheduled_writes |-> <<>>,
        big_endian |-> FALSE]

\* BinaryParser::from_buf
from_buf(b) == [new EXCEPT !.buf = b]

\* A second parser the caller may hold (the one read_parser returns, or one
\* built to be handed to write_parser): none at first.
NoSub == [live |-> FALSE, p |-> new]

\* Result<T>: Ok(value) with the parser as the call left it, or Err(kind).
Ok(p, v) == [ok |-> TRUE, err |-> "none", p |-> p, val |-> v]

Err(p, e) == [ok |-> FALSE, err |-> e, p |-> p, val |-> 0]

(***************************************************************************)
(* The cursor over the byte vector (inner: Cursor<Vec<u8>>).               *)
(***************************************************************************)
position(p) == p.pos

\* Write::write_all on the cursor: nothing for an empty slice; otherwise the
\* vector is first padded with zeros up to the position, then the bytes
\* overwrite what is there and extend the vector past its end.
write_all(p, bytes) ==
  IF bytes = <<>> THEN p
  ELSE LET padded == IF p.pos > Len(p.buf)
                     THEN p.buf \o Zeros(p.pos - Len(p.buf)) ELSE p.buf
           n      == Len(bytes)
           before == SubSeq(padded, 1, p.pos)
           after  == SubSeq(padded, p.pos + n + 1, Len(padded))
       IN [p EXCEPT !.buf = before \o bytes \o after, !.pos = p.pos + n]

\* Read::read_exact on the cursor: n bytes at the position, or the I/O error
\* (UnexpectedEof) when fewer remain; no bytes can be read wherever the
\* cursor is.  Where the cursor stands after the
\* error depends on the standard library the crate is built with (it stays,
\* or it is put at the end): eof names that choice.
read_exact(p, n, eof) ==
  IF n = 0 \/ p.pos + n <= Len(p.buf)
  THEN Ok([p EXCEPT !.pos = p.pos + n], SubSeq(p.buf, p.pos + 1, p.pos + n))
  ELSE Err([p EXCEPT !.pos = IF eof = "end" THEN Len(p.buf) ELSE p.pos], "Io")

EofChoices == {"stay", "end"}

\* SeekFrom
Start(n) == [from |-> "Start", n |-> n]

Current(n) == [from |-> "Current", n |-> n]

End(n) == [from |-> "End", n |-> n]

\* seek: Start(n) always succeeds; Current and End fail with the I/O error
\* when the target is negative, and leave the position alone.
seek(p, sf) ==
  LET target == CASE sf.from = "Start"   -> sf.n
                  [] sf.from = "Current" -> p.pos + sf.n
                  [] sf.from = "End"     -> Len(p.buf) + sf.n
  IN IF target < 0 THEN Err(p, "Io") ELSE Ok([p EXCEPT !.pos = target], 0)

(***************************************************************************)
(* int_impl!: the fixed-width integers and their byte encodings.           *)
(***************************************************************************)
IntTypes ==
  { [name |-> "u8",  bytes |-> 1, signed |-> FALSE],
    [name |-> "u16", bytes |-> 2, signed |-> FALSE],
    [name |-> "u32", bytes |-> 4, signed |-> FALSE],
    [name |-> "u64", bytes |-> 8, signed |-> FALSE],
    [name |-> "i8",  bytes |-> 1, signed |-> TRUE],
    [name |-> "i16", bytes |-> 2, signed |-> TRUE],
    [name |-> "i32", bytes |-> 4, signed |-> TRUE],
    [name |-> "i64", bytes |-> 8, signed |-> TRUE] }

Ty(nm) == CHOOSE t \in IntTypes : t.name = nm

\* $ty::to_le_bytes: the n low bytes of the two's complement of v, least
\* significant first.
RECURSIVE to_le_bytes(_, _)
to_le_bytes(v, n) ==
  IF n = 0 THEN <<>> ELSE <<v % 256>> \o to_le_bytes(v \div 256, n - 1)

\* $ty::to_be_bytes: the same bytes, most significant first.
to_be_bytes(v, n) == Reverse(to_le_bytes(v, n))

\* $ty::from_be_bytes: the most significant byte carries the sign of a
\* signed type.
RECURSIVE from_be_acc(_, _)
from_be_acc(acc, bytes) ==
  IF bytes = <<>> THEN acc
  ELSE from_be_acc(acc * 256 + Head(bytes), Tail(bytes))

from_be_bytes(bytes, signed) ==
  IF bytes = <<>> THEN 0
  ELSE LET top == Head(bytes)
       IN from_be_acc(IF signed /\ top >= 128 THEN top - 256 ELSE top,
                      Tail(bytes))

\* $ty::from_le_bytes
from_le_bytes(bytes, signed) == from_be_bytes(Reverse(bytes), signed)

U8 == Ty("u8")

U32 == Ty("u32")

\* read_<ty>: $bytes bytes decoded under the endianness flag.
read_int(p, ty, eof) ==
  LET r == read_exact(p, ty.bytes, eof)
  IN IF ~r.ok THEN r
     ELSE Ok(r.p, IF p.big_endian THEN from_be_bytes(r.val, ty.signed)
                  ELSE from_le_bytes(r.val, ty.signed))

\* write_<ty>, had it encoded little endian whatever the flag
write_int_always_le(p, ty, data) ==
  Ok(write_all(p, to_le_bytes(data, ty.bytes)), 0)

\* write_<ty>: the value encoded under the endianness flag, written at the
\* cursor.
write_int(p, ty, data) ==
  Ok(write_all(p, IF p.big_endian THEN to_be_bytes(data, ty.bytes)
                  ELSE to_le_bytes(data, ty.bytes)), 0)

\* read_<ty>_array: count elements, stopping at the first short read.
RECURSIVE read_int_array_loop(_, _, _, _, _)
read_int_array_loop(p, ty, count, data, eof) ==
  IF count = 0 THEN Ok(p, data)
  ELSE LET r == read_int(p, ty, eof)
       IN IF ~r.ok THEN r
          ELSE read_int_array_loop(r.p, ty, count - 1, Append(data, r.val), eof)

read_int_array(p, ty, count, eof) == read_int_array_loop(p, ty, count, <<>>, eof)

\* write_<ty>_array: the elements one after the other.
RECURSIVE write_int_array(_, _, _)
write_int_array(p, ty, data) ==
  IF data = <<>> THEN Ok(p, 0)
  ELSE write_int_array(write_int(p, ty, Head(data)).p, ty, Tail(data))

set_big_endian(p, be) == [p EXCEPT !.big_endian = be]

(***************************************************************************)
(* The base stack.                                                         *)
(***************************************************************************)
push_base(p) == [p EXCEPT !.bases = Append(@, position(p))]

\* pop_base, had it removed the oldest base
pop_base_front(p) ==
  [p EXCEPT !.bases = IF @ = <<>> THEN <<>> ELSE Tail(@)]

\* Vec::pop: nothing on an empty stack.
pop_base(p) ==
  [p EXCEPT !.bases = IF @ = <<>> THEN <<>> ELSE SubSeq(@, 1, Len(@) - 1)]

(***************************************************************************)
(* Closures.  A closure is the sequence of calls it makes on the parser    *)
(* it is handed; the `?` after each call returns the first error.          *)
(***************************************************************************)
W(v) == [op |-> "write_u8", v |-> v]

WP(f) == [op |-> "write_pointer", func |-> f]

SK(sf) == [op |-> "seek", to |-> sf]

FAIL(e) == [op |-> "fail", err |-> e]

POSITION == [op |-> "position"]

RD == [op |-> "read_u8"]

\* write_pointer, had it written a 4-byte placeholder into the slot
write_pointer_placeholder(p, func) ==
  LET pos == position(p)
      q   == [p EXCEPT !.scheduled_writes =
                 Append(@, [func |-> func, position |-> pos])]
  IN write_int(q, U32, 0)

\* write_pointer: the slot is the cursor's position; the task goes to the
\* back of this parser's queue; the cursor skips the 4 bytes of the slot
\* (nothing is written).
write_pointer(p, func) ==
  LET pos == position(p)
      q   == [p EXCEPT !.scheduled_writes =
                 Append(@, [func |-> func, position |-> pos])]
  IN seek(q, Current(4))

pending_writes(p) == p.scheduled_writes # <<>>

\* One call of a closure given to write_pointer.
call_write(p, o) ==
  CASE o.op = "write_u8"      -> write_int(p, U8, o.v)
    [] o.op = "write_pointer" -> write_pointer(p, o.func)
    [] o.op = "seek"          -> seek(p, o.to)
    [] o.op = "fail"          -> Err(p, o.err)

\* (write.func)(&mut new)
RECURSIVE run_write(_, _)
run_write(p, func) ==
  IF func = <<>> THEN Ok(p, 0)
  ELSE LET r == call_write(p, Head(func))
       IN IF ~r.ok THEN r ELSE run_write(r.p, Tail(func))

\* One call of a closure given to read_pointer; val is what the closure
\* returns.
call_read(r, o, eof) ==
  CASE o.op = "position" -> Ok(r.p, position(r.p))
    [] o.op = "read_u8"  -> read_int(r.p, U8, eof)
    [] o.op = "seek"     -> LET s == seek(r.p, o.to)
                            IN IF s.ok THEN Ok(s.p, r.val) ELSE s
    [] o.op = "fail"     -> Err(r.p, o.err)

\* func(self) in read_pointer
RECURSIVE run_read(_, _, _)
run_read(r, func, eof) ==
  IF func = <<>> THEN r
  ELSE LET n == call_read(r, Head(func), eof)
       IN IF ~n.ok THEN n ELSE run_read(n, Tail(func), eof)

(***************************************************************************)
(* Pointers.                                                               *)
(***************************************************************************)
\* active_base, had it taken the first base pushed
active_base_first(p) == IF p.bases = <<>> THEN 0 ELSE Head(p.bases)

\* bases.last().unwrap_or(&0)
active_base(p) == IF p.bases = <<>> THEN 0 ELSE Last(p.bases)

\* read_pointer, had it returned the closure's error before seeking back
read_pointer_early_return(p, func, eof) ==
  LET pos == position(p) + 4
      f   == read_int(p, U32, eof)
  IN IF ~f.ok THEN f
     ELSE LET offset == f.val + active_base(f.p)
              at     == seek(f.p, Start(offset)).p
              res    == run_read(Ok(at, 0), func, eof)
          IN IF ~res.ok THEN res
             ELSE [res EXCEPT !.p = seek(res.p, Start(pos)).p]

\* read_pointer: the return position is the cursor + 4; the 4-byte field is
\* read (an unreadable field is the error, nothing else is done); the
\* closure runs at field + active base; the cursor goes back to the return
\* position whatever the closure did; the closure's result is the result.
read_pointer(p, func, eof) ==
  LET pos == position(p) + 4
      f   == read_int(p, U32, eof)
  IN IF ~f.ok THEN f
     ELSE LET offset == f.val + active_base(f.p)
              at     == seek(f.p, Start(offset)).p
              res    == run_read(Ok(at, 0), func, eof)
          IN [res EXCEPT !.p = seek(res.p, Start(pos)).p]

\* pos as u32: the low 32 bits.
as_u32(v) == from_le_bytes(to_le_bytes(v, 4), FALSE)

\* patch, had it stored the start relative to the active base
patch_relative(p, write, pos, new_pos) ==
  LET at_slot == seek(p, Start(write.position)).p
      written == write_int(at_slot, U32, pos - active_base(p)).p
  IN seek(written, Start(new_pos)).p

\* patch, had it left the cursor behind the slot
patch_no_return(p, write, pos, new_pos) ==
  LET at_slot == seek(p, Start(write.position)).p
  IN write_int(at_slot, U32, as_u32(pos)).p

\* The end of one iteration of finish_writes' loop: seek to the task's slot,
\* write the recorded start position as a u32, seek to where the closure
\* stopped.
patch(p, write, pos, new_pos) ==
  LET at_slot == seek(p, Start(write.position)).p
      written == write_int(at_slot, U32, as_u32(pos)).p
  IN seek(written, Start(new_pos)).p

\* drain, had it gone on with the next tasks after a failing closure and
\* reported the failure at the end
RECURSIVE drain_on(_, _, _)
drain_on(p, writes, log) ==
  IF writes = <<>>
  THEN LET good == \A i \in 1..Len(log) : log[i].ok
       IN [ok |-> good, err |-> IF good THEN "none" ELSE "Utf8", p |-> p,
           log |-> log]
  ELSE LET write == Head(writes)
           pos   == position(p)
           r     == run_write(p, write.func)
           q     == IF r.ok THEN patch(r.p, write, pos, position(r.p)) ELSE r.p
           entry == [position |-> write.position, func |-> write.func,
                     pos |-> pos, ok |-> r.ok, new_pos |-> position(r.p),
                     after |-> q]
       IN drain_on(q, Tail(writes), Append(log, entry))

\* drain, had it taken the tasks from the back of the queue
RECURSIVE drain_lifo(_, _, _)
drain_lifo(p, writes, log) ==
  IF writes = <<>> THEN [ok |-> TRUE, err |-> "none", p |-> p, log |-> log]
  ELSE LET write == Last(writes)
           pos   == position(p)
           r     == run_write(p, write.func)
           entry == [position |-> write.position, func |-> write.func,
                     pos |-> pos, ok |-> r.ok, new_pos |-> position(r.p)]
       IN IF ~r.ok
          THEN [ok |-> FALSE, err |-> r.err, p |-> r.p,
                log |-> Append(log, entry @@ [after |-> r.p])]
          ELSE LET q == patch(r.p, write, pos, position(r.p))
               IN drain_lifo(q, SubSeq(writes, 1, Len(writes) - 1),
                             Append(log, entry @@ [after |-> q]))

\* The loop of finish_writes over the queue it was called with.  log keeps,
\* per task taken from the queue, the slot, the closure, the recorded start,
\* whether the closure succeeded and the parser as the iteration left it.
RECURSIVE drain(_, _, _)
drain(p, writes, log) ==
  IF writes = <<>> THEN [ok |-> TRUE, err |-> "none", p |-> p, log |-> log]
  ELSE LET write == Head(writes)
           pos   == position(p)
           r     == run_write(p, write.func)
           entry == [position |-> write.position, func |-> write.func,
                     pos |-> pos, ok |-> r.ok, new_pos |-> position(r.p)]
       IN IF ~r.ok
          THEN [ok |-> FALSE, err |-> r.err, p |-> r.p,
                log |-> Append(log, entry @@ [after |-> r.p])]
          ELSE LET q == patch(r.p, write, pos, position(r.p))
               IN drain(q, Tail(writes), Append(log, entry @@ [after |-> q]))

\* finish_writes, had the new parser taken only the buffer
finish_writes_fresh(self) ==
  drain([self EXCEPT !.scheduled_writes = <<>>, !.bases = <<>>,
                     !.big_endian = FALSE],
        self.scheduled_writes, <<>>)

\* finish_writes: a parser with an empty queue takes the buffer, the bases
\* and the flag; the tasks of the old queue run against it in order.
finish_writes(self) ==
  drain([self EXCEPT !.scheduled_writes = <<>>], self.scheduled_writes, <<>>)

\* Option<&Vec<u8>>
None == [some |-> FALSE, bytes |-> <<>>]

Some(b) == [some |-> TRUE, bytes |-> b]

\* to_buf: finish_writes, then the bytes of the parser it returned.
to_buf(self) ==
  LET r == finish_writes(self)
  IN r @@ [bytes |-> IF r.ok THEN Some(r.p.buf) ELSE None]

\* to_buf_const, had it not looked at the queue
to_buf_const_always(p) == Some(p.buf)

\* to_buf_const: None while writes are pending.
to_buf_const(p) == IF pending_writes(p) THEN None ELSE Some(p.buf)

(***************************************************************************)
(* Strings, byte buffers and sub-parsers.  A String is the sequence of its *)
(* bytes.                                                                  *)
(***************************************************************************)
IsContinuation(b) == b >= 128 /\ b <= 191

\* std::str::from_utf8: whether the bytes are well-formed UTF-8.
RECURSIVE from_utf8(_)
from_utf8(bytes) ==
  IF bytes = <<>> THEN TRUE
  ELSE LET b == Head(bytes)
           n == IF b < 128 THEN 1
                ELSE IF b >= 194 /\ b <= 223 THEN 2
                ELSE IF b >= 224 /\ b <= 239 THEN 3
                ELSE IF b >= 240 /\ b <= 244 THEN 4
                ELSE 0
       IN /\ n > 0
          /\ Len(bytes) >= n
          /\ \A i \in 2..n : IsContinuation(bytes[i])
          /\ b = 224 => bytes[2] >= 160
          /\ b = 237 => bytes[2] <= 159
          /\ b = 240 => bytes[2] >= 144
          /\ b = 244 => bytes[2] <= 143
          /\ from_utf8(SubSeq(bytes, n + 1, Len(bytes)))

\* BufRead::read_until on the cursor: the bytes from the position up to and
\* including the first delim, or up to the end of the vector when there is
\* none; it never fails.
read_until(p, delim) ==
  LET rest  == IF p.pos >= Len(p.buf) THEN <<>>
               ELSE SubSeq(p.buf, p.pos + 1, Len(p.buf))
      found == {i \in 1..Len(rest) : rest[i] = delim}
      taken == IF found = {} THEN rest
               ELSE SubSeq(rest, 1, CHOOSE i \in found : \A j \in found : i <= j)
  IN Ok([p EXCEPT !.pos = p.pos + Len(taken)], taken)

\* read_null_string: what read_until took, less its last byte, as UTF-8.
read_null_string(p) ==
  LET r   == read_until(p, 0)
      buf == IF r.val = <<>> THEN <<>> ELSE SubSeq(r.val, 1, Len(r.val) - 1)
  IN IF from_utf8(buf) THEN Ok(r.p, buf) ELSE Err(r.p, "Utf8")

\* read_string: length bytes as UTF-8.
read_string(p, length, eof) ==
  LET r == read_exact(p, length, eof)
  IN IF ~r.ok THEN r
     ELSE IF from_utf8(r.val) THEN r ELSE Err(r.p, "Utf8")

read_buf(p, length, eof) == read_exact(p, length, eof)

write_buf(p, data) == Ok(write_all(p, data), 0)

\* read_parser, had the cursor stayed where it was
read_parser_in_place(p, length, eof) ==
  LET r == read_buf(p, length, eof)
  IN IF ~r.ok THEN r ELSE Ok(p, from_buf(r.val))

\* read_parser: a parser of its own over the bytes read.
read_parser(p, length, eof) ==
  LET r == read_buf(p, length, eof)
  IN IF ~r.ok THEN r ELSE Ok(r.p, from_buf(r.val))

\* write_parser: the bytes to_buf gives for the parser, written at the
\* cursor; the error of to_buf before anything is written.
write_parser(p, other) ==
  LET r == to_buf(other)
  IN IF ~r.ok THEN Err(p, r.err) ELSE write_buf(p, r.bytes.bytes)

(***************************************************************************)
(* Alignment.                                                              *)
(***************************************************************************)
\* a & b
RECURSIVE BitAnd(_, _)
BitAnd(a, b) ==
  IF a = 0 \/ b = 0 THEN 0
  ELSE (a % 2) * (b % 2) + 2 * BitAnd(a \div 2, b \div 2)

\* a & !b
RECURSIVE BitAndNot(_, _)
BitAndNot(a, b) ==
  IF a = 0 THEN 0
  ELSE (a % 2) * (1 - (b % 2)) + 2 * BitAndNot(a \div 2, b \div 2)

\* align_seek, had it not tested whether the position is aligned already
align_seek_always_adds(p, alignment) ==
  seek(p, Start(BitAndNot(position(p), alignment - 1) + alignment))

align_seek(p, alignment) ==
  LET pos    == position(p)
      offset == IF BitAnd(pos, alignment - 1) # 0
                THEN BitAndNot(pos, alignment - 1) + alignment
                ELSE pos
  IN seek(p, Start(offset))

\* align_write, had it tested the position against alignment itself
RECURSIVE align_write_wrong_mask(_, _)
align_write_wrong_mask(p, alignment) ==
  IF BitAnd(position(p), alignment) # 0
  THEN align_write_wrong_mask(write_int(p, U8, 0).p, alignment)
  ELSE Ok(p, 0)

\* align_write: zero bytes, one at a time, while the position has a bit of
\* alignment - 1 set.
RECURSIVE align_write(_, _)
align_write(p, alignment) ==
  IF BitAnd(position(p), alignment - 1) # 0
  THEN align_write(write_int(p, U8, 0).p, alignment)
  ELSE Ok(p, 0)

(***************************************************************************)
(* The writer machine: a caller builds a buffer on a fresh parser.         *)
(* owned says whether the caller still holds the parser: finish_writes     *)
(* and to_buf take it by value, and a failing finish_writes drops it.      *)
(* When owned is FALSE, parser is the value that was consumed.             *)
(* last is the last call made and what it returned.                        *)
(***************************************************************************)
\* the bytes the closures and the caller write
Content == [A |-> 160, B |-> 176, A1 |-> 161, B1 |-> 177, E |-> 238,
            S |-> 221, top |-> 17]

FuncA1 == <<W(Content.A1)>>

FuncB1 == <<W(Content.B1)>>

\* content, then one nested pointer
FuncA == <<W(Content.A), WP(FuncA1)>>

FuncB == <<W(Content.B), WP(FuncB1)>>

\* content, then an error
FuncFail == <<W(Content.E), FAIL("Utf8")>>

\* a closure that moves the cursor before it writes
FuncSeek == <<SK(Start(0)), W(Content.S)>>

WFuncs == {FuncA, FuncB, FuncA1, FuncFail, FuncSeek}

SeekArgs == {Start(0), Start(1), End(0), Current(-2)}

NoCall == [op |-> "none", ok |-> TRUE, err |-> "none", log |-> <<>>,
           out |-> None, arg |-> 0, val |-> 0]

Call(op, ok, err) == [NoCall EXCEPT !.op = op, !.ok = ok, !.err = err]

Init ==
  /\ parser = new
  /\ owned = TRUE
  /\ last = NoCall
  /\ steps = 0
  /\ script = <<>>
  /\ sub = NoSub

CanCall == owned /\ steps < MaxSteps

WriteU8 ==
  /\ CanCall
  /\ parser' = write_int(parser, U8, Content.top).p
  /\ last' = Call("write_u8", TRUE, "none")
  /\ steps' = steps + 1
  /\ UNCHANGED <<owned, script, sub>>

WritePointer ==
  /\ CanCall
  /\ \E f \in WFuncs :
       LET r == write_pointer(parser, f)
       IN /\ parser' = r.p
          /\ last' = Call("write_pointer", r.ok, r.err)
  /\ steps' = steps + 1
  /\ UNCHANGED <<owned, script, sub>>

Seek ==
  /\ CanCall
  /\ \E sf \in SeekArgs :
       LET r == seek(parser, sf)
       IN /\ parser' = r.p
          /\ last' = Call("seek", r.ok, r.err)
  /\ steps' = steps + 1
  /\ UNCHANGED <<owned, script, sub>>

PushBase ==
  /\ CanCall
  /\ parser' = push_base(parser)
  /\ last' = Call("push_base", TRUE, "none")
  /\ steps' = steps + 1
  /\ UNCHANGED <<owned, script, sub>>

PopBase ==
  /\ CanCall
  /\ parser' = pop_base(parser)
  /\ last' = Call("pop_base", TRUE, "none")
  /\ steps' = steps + 1
  /\ UNCHANGED <<owned, script, sub>>

SetBigEndian ==
  /\ CanCall
  /\ \E be \in BOOLEAN : parser' = set_big_endian(parser, be)
  /\ last' = Call("set_big_endian", TRUE, "none")
  /\ steps' = steps + 1
  /\ UNCHANGED <<owned, script, sub>>

\* let parser = parser.finish_writes()?;
FinishWrites ==
  /\ CanCall
  /\ LET r == finish_writes(parser)
     IN /\ parser' = r.p
        /\ owned' = r.ok
        /\ last' = [Call("finish_writes", r.ok, r.err) EXCEPT !.log = r.log]
  /\ steps' = steps + 1
  /\ UNCHANGED <<script, sub>>

\* let bytes = parser.to_buf()?;
ToBuf ==
  /\ CanCall
  /\ LET r == to_buf(parser)
     IN /\ parser' = r.p
        /\ owned' = FALSE
        /\ last' = [Call("to_buf", r.ok, r.err) EXCEPT !.log = r.log,
                                                       !.out = r.bytes]
  /\ steps' = steps + 1
  /\ UNCHANGED <<script, sub>>

ToBufConst ==
  /\ CanCall
  /\ last' = [Call("to_buf_const", TRUE, "none") EXCEPT
                !.out = to_buf_const(parser)]
  /\ steps' = steps + 1
  /\ UNCHANGED <<parser, owned, script, sub>>

Next ==
  \/ WriteU8
  \/ WritePointer
  \/ Seek
  \/ PushBase
  \/ PopBase
  \/ SetBigEndian
  \/ FinishWrites
  \/ ToBuf
  \/ ToBufConst

Spec == Init /\ [][Next]_vars

(***************************************************************************)
(* Properties of the writer machine.                                       *)
(***************************************************************************)
\* The 4 bytes of an unsigned 32-bit value v under the flag be.
FieldBytes(v, be) ==
  LET le == <<v % 256, (v \div 256) % 256, (v \div 65536) % 256,
              (v \div 16777216) % 256>>
  IN IF be THEN <<le[4], le[3], le[2], le[1]>> ELSE le

\* The 4-byte field at slot holds v.
SlotHolds(p, slot, v) ==
  /\ slot + 4 <= Len(p.buf)
  /\ SubSeq(p.buf, slot + 1, slot + 4) = FieldBytes(v, p.big_endian)

IsContent(b) == b \in {Content.A, Content.B, Content.A1, Content.B1}

\* The contents of the tasks, in buffer order.
Emitted(p) == SelectSeq(p.buf, IsContent)

FinishedOk == last.op = "finish_writes" /\ last.ok

FinishFailed == last.op = "finish_writes" /\ ~last.ok

\* C1: with A then B scheduled at the top level, A scheduling A1 and B
\* scheduling B1 from their closures, the finish_writes call that runs A and
\* B also runs A1 and B1, and the buffer holds the contents in the order
\* A, B, A1, B1.
C1_NestedEmittedBySameCall ==
  (/\ FinishedOk
   /\ Len(last.log) = 2
   /\ last.log[1].func = FuncA
   /\ last.log[2].func = FuncB)
  => /\ Emitted(parser) = <<Content.A, Content.B, Content.A1, Content.B1>>
     /\ ~pending_writes(parser)

\* C2: a finish_writes that returns successfully leaves no scheduled write
\* pending, and the parser whose bytes to_buf returns has none pending.
C2_DrainsToEmpty ==
  ((last.op = "finish_writes" \/ last.op = "to_buf") /\ last.ok)
  => ~pending_writes(parser)

\* The last task a successful finish_writes resolved.
Resolved == Last(last.log)

\* C3 (as amended): the slot of a resolved task holds the absolute start T of
\* its content whatever the base stack is, and read_pointer at that slot
\* under the base stack of the parser runs its closure at T + the active
\* base (at T when the stack is empty).
C3_StoresAbsolute ==
  (FinishedOk /\ last.log # <<>>)
  => LET T == Resolved.pos
         r == read_pointer(seek(parser, Start(Resolved.position)).p,
                           <<POSITION>>, "stay")
     IN /\ SlotHolds(parser, Resolved.position, T)
        /\ r.ok
        /\ r.val = T + active_base(parser)

\* C3, witness: a task resolved with a base above 0 on the stack.
C3_Witness ==
  /\ FinishedOk
  /\ last.log # <<>>
  /\ active_base(parser) > 0
  /\ Resolved.pos > active_base(parser)

\* C3 (as claimed): with a base B on the stack the slot holds T - B.
C3_StoresRelative ==
  (FinishedOk /\ last.log # <<>> /\ Resolved.pos >= active_base(parser))
  => SlotHolds(parser, Resolved.position, Resolved.pos - active_base(parser))

\* C6: to_buf_const returns None when a scheduled write is pending and the
\* bytes of the buffer otherwise.
C6_ConstOnlyWhenNothingPending ==
  last.op = "to_buf_const"
  => /\ parser.scheduled_writes # <<>> => last.out = None
     /\ parser.scheduled_writes = <<>> => last.out = Some(parser.buf)

\* C6, witnesses: to_buf_const refused while a task is pending, and answered
\* after the queue was emptied by finish_writes.
C6_WitnessNone ==
  last.op = "to_buf_const" /\ parser.scheduled_writes # <<>> /\ ~last.out.some

C6_Witness ==
  /\ last.op = "to_buf_const"
  /\ last.out.some
  /\ Len(parser.buf) >= 5

\* C7: right after a task is patched its slot holds the position the cursor
\* had just before its closure ran, the cursor is back where the closure
\* stopped, and the closure's content starts at the recorded position
\* (unless the patch itself went over it).
C7_PatchedValue ==
  last.op = "finish_writes"
  => \A i \in 1..Len(last.log) :
       LET e == last.log[i]
       IN e.ok
          => /\ SlotHolds(e.after, e.position, e.pos)
             /\ position(e.after) = e.new_pos
             /\ (/\ e.func # <<>>
                 /\ Head(e.func).op = "write_u8"
                 /\ e.pos \notin e.position .. e.position + 3)
                => e.after.buf[e.pos + 1] = Head(e.func).v

\* C7, witness: two tasks patched by one call, the second after content.
C7_Witness ==
  /\ FinishedOk
  /\ Len(last.log) = 2
  /\ last.log[2].pos > last.log[1].pos
  /\ last.log[2].new_pos > last.log[2].pos

\* The positions an iteration of the loop wrote to.
WrittenBy(e) ==
  (IF e.func = FuncSeek THEN {0} ELSE e.pos .. e.new_pos - 1)
  \cup (IF e.ok THEN e.position .. e.position + 3 ELSE {})

\* The error a closure returns.
ErrorOf(func) == Last(func).err

\* What C9 says of the tasks up to the failing one: the error is the
\* closure's, the failing task is the last one run and is not patched, and
\* the earlier slots keep their values unless something later wrote there.
FailureLeaves ==
  LET k == Len(last.log)
  IN /\ k >= 1
     /\ ~last.log[k].ok
     /\ last.err = ErrorOf(last.log[k].func)
     /\ parser = last.log[k].after
     /\ \A j \in 1..k-1 :
          /\ last.log[j].ok
          /\ (\A i \in j+1..k :
                WrittenBy(last.log[i])
                \cap (last.log[j].position .. last.log[j].position + 3) = {})
             => SlotHolds(parser, last.log[j].position, last.log[j].pos)

\* C9 (as amended): when the closure of the k-th task fails, finish_writes
\* returns its error, runs no later task, does not patch the k-th slot and
\* undoes nothing; the parser, moved into the call, is dropped with its
\* buffer.
C9_FailureAborts ==
  [][(last'.op = "finish_writes" /\ ~last'.ok)
     => /\ ~owned'
        /\ FailureLeaves'
        /\ Len(last'.log) <= Len(parser.scheduled_writes)
        /\ \A i \in 1..Len(last'.log) :
             /\ last'.log[i].func = parser.scheduled_writes[i].func
             /\ last'.log[i].position = parser.scheduled_writes[i].position
        /\ LET k == Len(last'.log)
               before == IF k = 1 THEN parser ELSE last'.log[k-1].after
           IN run_write(before, last'.log[k].func).p.buf = parser'.buf
    ]_vars

\* C9, witness: the second of three tasks failed after the first was patched.
C9_Witness ==
  /\ FinishFailed
  /\ Len(last.log) = 2
  /\ SlotHolds(parser, last.log[1].position, last.log[1].pos)

\* C9 (as claimed): after the failure the buffer is still available, in its
\* partially patched state.
C9_BufferAvailable == FinishFailed => (owned /\ FailureLeaves)

(***************************************************************************)
(* The reader machine: one read call on a parser over a given buffer, from *)
(* any position and base stack a caller can have set up with seek and      *)
(* push_base.                                                              *)
(***************************************************************************)
ReadByteVals == {0, 2}

RECURSIVE SeqsOfLen(_, _)
SeqsOfLen(S, n) ==
  IF n = 0 THEN {<<>>}
  ELSE {<<x>> \o t : x \in S, t \in SeqsOfLen(S, n - 1)}

\* Buffers that are not UTF-8 from their first or their second byte.
InvalidUtf8Bufs == {<<255, 0>>, <<2, 194, 2, 0>>}

ReadBufs ==
  UNION {SeqsOfLen(ReadByteVals, n) : n \in 0..MaxBufLen} \cup InvalidUtf8Bufs

ReadLengths == 0..2

ReadBases == UNION {SeqsOfLen({1, 2}, n) : n \in 0..2}

\* closures given to read_pointer: the position the closure is run at; the
\* byte there; an error after moving the cursor; the byte there, leaving the
\* cursor past the end.
RPos == <<POSITION>>

RRead == <<RD>>

RFailMoved == <<SK(End(0)), FAIL("Utf8")>>

RReadMoved == <<RD, SK(End(1))>>

RFuncs == {RPos, RRead, RFailMoved, RReadMoved}

ReadInit ==
  /\ \E b \in ReadBufs, bs \in ReadBases, be \in BOOLEAN :
       \E at \in 0..Len(b) + 1 :
         parser = [from_buf(b) EXCEPT !.pos = at, !.bases = bs,
                                      !.big_endian = be]
  /\ owned = TRUE
  /\ last = NoCall
  /\ steps = 0
  /\ script = <<>>
  /\ sub = NoSub

ReadPointer ==
  /\ last.op = "none"
  /\ \E f \in RFuncs, eof \in EofChoices :
       LET r == read_pointer(parser, f, eof)
       IN /\ parser' = r.p
          /\ last' = [Call("read_pointer", r.ok, r.err) EXCEPT
                        !.arg = f, !.val = r.val]
  /\ steps' = steps + 1
  /\ UNCHANGED <<owned, script, sub>>

ReadInt ==
  /\ last.op = "none"
  /\ \E ty \in IntTypes, eof \in EofChoices :
       LET r == read_int(parser, ty, eof)
       IN /\ parser' = r.p
          /\ last' = [Call("read_int", r.ok, r.err) EXCEPT
                        !.arg = ty, !.val = r.val]
  /\ steps' = steps + 1
  /\ UNCHANGED <<owned, script, sub>>

ReadIntArray ==
  /\ last.op = "none"
  /\ \E ty \in IntTypes, count \in ReadLengths, eof \in EofChoices :
       LET r == read_int_array(parser, ty, count, eof)
       IN /\ parser' = r.p
          /\ last' = [Call("read_int_array", r.ok, r.err) EXCEPT
                        !.arg = [ty |-> ty, count |-> count],
                        !.out = IF r.ok THEN Some(r.val) ELSE None]
  /\ steps' = steps + 1
  /\ UNCHANGED <<owned, script, sub>>

ReadNullString ==
  /\ last.op = "none"
  /\ LET r == read_null_string(parser)
     IN /\ parser' = r.p
        /\ last' = [Call("read_null_string", r.ok, r.err) EXCEPT
                      !.out = IF r.ok THEN Some(r.val) ELSE None]
  /\ steps' = steps + 1
  /\ UNCHANGED <<owned, script, sub>>

ReadString ==
  /\ last.op = "none"
  /\ \E length \in ReadLengths, eof \in EofChoices :
       LET r == read_string(parser, length, eof)
       IN /\ parser' = r.p
          /\ last' = [Call("read_string", r.ok, r.err) EXCEPT
                        !.arg = length,
                        !.out = IF r.ok THEN Some(r.val) ELSE None]
  /\ steps' = steps + 1
  /\ UNCHANGED <<owned, script, sub>>

ReadBuf ==
  /\ last.op = "none"
  /\ \E length \in ReadLengths, eof \in EofChoices :
       LET r == read_buf(parser, length, eof)
       IN /\ parser' = r.p
          /\ last' = [Call("read_buf", r.ok, r.err) EXCEPT
                        !.arg = length,
                        !.out = IF r.ok THEN Some(r.val) ELSE None]
  /\ steps' = steps + 1
  /\ UNCHANGED <<owned, script, sub>>

ReadParser ==
  /\ last.op = "none"
  /\ \E length \in ReadLengths, eof \in EofChoices :
       LET r == read_parser(parser, length, eof)
       IN /\ parser' = r.p
          /\ last' = [Call("read_parser", r.ok, r.err) EXCEPT !.arg = length]
          /\ sub' = IF r.ok THEN [live |-> TRUE, p |-> r.val] ELSE sub
  /\ steps' = steps + 1
  /\ UNCHANGED <<owned, script>>

ReadNext ==
  \/ ReadPointer
  \/ ReadInt
  \/ ReadIntArray
  \/ ReadNullString
  \/ ReadString
  \/ ReadBuf
  \/ ReadParser

SpecRead == ReadInit /\ [][ReadNext]_vars

\* The 4-byte field at the cursor can be read.
FieldReadable(p) == p.pos + 4 <= Len(p.buf)

\* The unsigned value of the 4-byte field at the cursor, under the flag.
FieldValue(p) ==
  LET b == [i \in 1..4 |-> p.buf[p.pos + i]]
  IN IF p.big_endian
     THEN b[4] + 256 * b[3] + 65536 * b[2] + 16777216 * b[1]
     ELSE b[1] + 256 * b[2] + 65536 * b[3] + 16777216 * b[4]

\* The most recently pushed base that was not popped, 0 without one.
TopBase(p) == IF Len(p.bases) = 0 THEN 0 ELSE p.bases[Len(p.bases)]

\* C4: read_pointer runs its closure with the cursor at the value of the
\* 4-byte field plus the top of the base stack (plus 0 on an empty stack);
\* the bases below the top do not count.
C4_ReadTarget ==
  [][(/\ last'.op = "read_pointer"
      /\ last'.arg = RPos
      /\ FieldReadable(parser))
     => /\ last'.ok
        /\ last'.val = FieldValue(parser) + TopBase(parser)
    ]_vars

\* C4, witness: a pointer read under two different bases.
C4_Witness ==
  /\ last.op = "read_pointer"
  /\ last.arg = RPos
  /\ last.ok
  /\ Len(parser.bases) = 2
  /\ parser.bases[1] # parser.bases[2]
  /\ last.val = 2 + parser.bases[2]

\* What a closure run at target returns.
Returned(func, p, target) ==
  CASE func = RPos -> [ok |-> TRUE, err |-> "none", val |-> target]
    [] func \in {RRead, RReadMoved} ->
         IF target < Len(p.buf)
         THEN [ok |-> TRUE, err |-> "none", val |-> p.buf[target + 1]]
         ELSE [ok |-> FALSE, err |-> "Io", val |-> 0]
    [] func = RFailMoved -> [ok |-> FALSE, err |-> "Utf8", val |-> 0]

\* C5: when the 4-byte field is readable, read_pointer leaves the cursor 4
\* past where it was, whether the closure succeeded or failed and wherever
\* it left the cursor, and returns what the closure returned.
C5_CursorRestored ==
  [][(last'.op = "read_pointer" /\ FieldReadable(parser))
     => /\ parser'.pos = parser.pos + 4
        /\ LET x == Returned(last'.arg, parser,
                             FieldValue(parser) + TopBase(parser))
           IN /\ last'.ok = x.ok
              /\ last'.err = x.err
              /\ last'.val = x.val
    ]_vars

\* C5, witness: the closure failed with the cursor at the end, and the
\* cursor is back behind the field.
C5_Witness ==
  /\ last.op = "read_pointer"
  /\ last.arg = RFailMoved
  /\ last.err = "Utf8"
  /\ parser.pos = 4
  /\ Len(parser.buf) > 4

(***************************************************************************)
(* The round trip machine: primitive writes on a fresh parser, then        *)
(* finish_writes, a seek to the start and the same reads in the same       *)
(* order.  script keeps what was written and what was read back.           *)
(***************************************************************************)
\* values of each type: one whose bytes all differ, one with the top bit
\* of the type (or of what the model's integers hold) set
ValSeq(ty) ==
  CASE ty.name = "u8"  -> <<1, 200>>
    [] ty.name = "u16" -> <<258, 65534>>
    [] ty.name = "u32" -> <<16909060, 2147483647>>
    [] ty.name = "u64" -> <<16909060, 2147483647>>
    [] ty.name = "i8"  -> <<-128, 100>>
    [] ty.name = "i16" -> <<-2, 258>>
    [] ty.name = "i32" -> <<-2147483647 - 1, 16909060>>
    [] ty.name = "i64" -> <<-16909060, 2147483647>>

Vals(ty) == {ValSeq(ty)[1], ValSeq(ty)[2]}

\* the arrays written: none of the values, or both
Arrays(ty) == {<<>>, ValSeq(ty)}

RTInit ==
  /\ parser = new
  /\ owned = TRUE
  /\ last = NoCall
  /\ steps = 0
  /\ script = [writes |-> <<>>, reads |-> <<>>]
  /\ sub = NoSub

RTSetBigEndian ==
  /\ last.op = "none"
  /\ \E be \in BOOLEAN : parser' = set_big_endian(parser, be)
  /\ last' = Call("set_big_endian", TRUE, "none")
  /\ UNCHANGED <<owned, steps, script, sub>>

Writing == last.op \in {"none", "set_big_endian", "write"}

RTWrite ==
  /\ Writing
  /\ Len(script.writes) < MaxOps
  /\ \E ty \in IntTypes :
       \E v \in Vals(ty) :
         /\ parser' = write_int(parser, ty, v).p
         /\ script' = [script EXCEPT !.writes =
                         Append(@, [ty |-> ty, array |-> FALSE, data |-> v])]
  /\ last' = Call("write", TRUE, "none")
  /\ UNCHANGED <<owned, steps, sub>>

RTWriteArray ==
  /\ Writing
  /\ Len(script.writes) < MaxOps
  /\ \E ty \in IntTypes :
       \E a \in Arrays(ty) :
         /\ parser' = write_int_array(parser, ty, a).p
         /\ script' = [script EXCEPT !.writes =
                         Append(@, [ty |-> ty, array |-> TRUE, data |-> a])]
  /\ last' = Call("write", TRUE, "none")
  /\ UNCHANGED <<owned, steps, sub>>

RTFinish ==
  /\ last.op = "write"
  /\ LET r == finish_writes(parser)
     IN /\ parser' = r.p
        /\ owned' = r.ok
        /\ last' = Call("finish_writes", r.ok, r.err)
  /\ UNCHANGED <<steps, script, sub>>

RTRewind ==
  /\ last.op = "finish_writes"
  /\ owned
  /\ parser' = seek(parser, Start(0)).p
  /\ last' = Call("seek", TRUE, "none")
  /\ UNCHANGED <<owned, steps, script, sub>>

RTRead ==
  /\ last.op \in {"seek", "read"}
  /\ Len(script.reads) < Len(script.writes)
  /\ \E eof \in EofChoices :
       LET w == script.writes[Len(script.reads) + 1]
           r == IF w.array
                THEN read_int_array(parser, w.ty, Len(w.data), eof)
                ELSE read_int(parser, w.ty, eof)
       IN /\ parser' = r.p
          /\ script' = [script EXCEPT !.reads =
                          Append(@, [ok |-> r.ok, val |-> r.val])]
          /\ last' = Call("read", r.ok, r.err)
  /\ UNCHANGED <<owned, steps, sub>>

RTNext ==
  \/ RTSetBigEndian
  \/ RTWrite
  \/ RTWriteArray
  \/ RTFinish
  \/ RTRewind
  \/ RTRead

SpecRT == RTInit /\ [][RTNext]_vars

\* C8: every value read back is the value written, under either flag.
C8_RoundTrip ==
  \A i \in 1..Len(script.reads) :
    /\ script.reads[i].ok
    /\ script.reads[i].val = script.writes[i].data

\* C8, witness: a negative i16 and then an array, read back big endian.
C8_Witness ==
  /\ parser.big_endian
  /\ Len(script.reads) = 2
  /\ script.writes[1].ty.name = "i16"
  /\ ~script.writes[1].array
  /\ script.writes[1].data < 0
  /\ script.writes[2].array
  /\ Len(script.writes[2].data) = 2

(***************************************************************************)
(* The alignment machine: align_write and align_seek from any position,    *)
(* inside or past the buffer.                                              *)
(***************************************************************************)
RECURSIVE Filled(_, _)
Filled(b, n) == IF n = 0 THEN <<>> ELSE <<b>> \o Filled(b, n - 1)

Alignments == {1, 2, 3, 4, 8}

\* Base stacks and queues a parser can hold when it is aligned.
AlignBases == {<<>>, <<3>>}

AlignQueues == {<<>>, <<[position |-> 0, func |-> FuncA1]>>}

AlignInit ==
  /\ \E n \in 0..MaxBufLen, at \in 0..MaxBufLen + 2,
        bs \in AlignBases, q \in AlignQueues :
       parser = [from_buf(Filled(255, n)) EXCEPT !.pos = at, !.bases = bs,
                                                 !.scheduled_writes = q]
  /\ owned = TRUE
  /\ last = NoCall
  /\ steps = 0
  /\ script = <<>>
  /\ sub = NoSub

AlignWrite ==
  /\ steps < MaxAlignSteps
  /\ \E n \in Alignments :
       LET r == align_write(parser, n)
       IN /\ parser' = r.p
          /\ last' = [Call("align_write", r.ok, r.err) EXCEPT !.arg = n]
  /\ steps' = steps + 1
  /\ UNCHANGED <<owned, script, sub>>

AlignSeek ==
  /\ steps < MaxAlignSteps
  /\ \E n \in Alignments :
       LET r == align_seek(parser, n)
       IN /\ parser' = r.p
          /\ last' = [Call("align_seek", r.ok, r.err) EXCEPT !.arg = n]
  /\ steps' = steps + 1
  /\ UNCHANGED <<owned, script, sub>>

AlignNext ==
  \/ AlignWrite
  \/ AlignSeek

SpecAlign == AlignInit /\ [][AlignNext]_vars

IsPowerOfTwo(n) == n \in {1, 2, 4, 8}

\* The least multiple of n that is >= s.
LeastMultiple(n, s) == CHOOSE m \in s..s + n - 1 : m % n = 0

\* C10: for a power of two n, align_write(n) leaves the position at the
\* least multiple of n that is >= the starting position; the bytes it wrote
\* are 0 and the others are as they were; aligned already, it changes
\* nothing; and a second align_write(n) right after changes nothing.
C10_AlignWrite ==
  [][(last'.op = "align_write" /\ IsPowerOfTwo(last'.arg))
     => LET n == last'.arg
            s == parser.pos
            t == LeastMultiple(n, s)
            old == parser.buf
            now == parser'.buf
        IN /\ last'.ok
           /\ parser'.pos = t
           /\ t = s => parser' = parser
           /\ t > s =>
                /\ Len(now) = (IF Len(old) > t THEN Len(old) ELSE t)
                /\ \A i \in 1..Len(now) :
                     now[i] = IF i <= Len(old) /\ (i <= s \/ i > t)
                              THEN old[i] ELSE 0
                /\ parser' = [parser EXCEPT !.buf = now, !.pos = t]
           /\ align_write(parser', n) = Ok(parser', 0)
           /\ (last.op = "align_write" /\ last.arg = n) => parser' = parser
    ]_vars

\* C10, witness: padding written over and past existing bytes.
C10_Witness ==
  /\ last.op = "align_write"
  /\ last.arg = 4
  /\ parser.pos = 4
  /\ Len(parser.buf) = 4
  /\ parser.buf = <<255, 0, 0, 0>>

(***************************************************************************)
(* Frame properties of the writer machine.                                 *)
(***************************************************************************)
\* C12: push_base appends the cursor's position to the base stack and
\* changes nothing else; pop_base removes the entry pushed last, does
\* nothing (and does not fail) on an empty stack, and changes nothing else.
C12_BaseStack ==
  [][/\ last'.op = "push_base"
        => /\ last'.ok
           /\ Len(parser'.bases) = Len(parser.bases) + 1
           /\ \A i \in 1..Len(parser.bases) : parser'.bases[i] = parser.bases[i]
           /\ parser'.bases[Len(parser'.bases)] = parser.pos
           /\ parser' = [parser EXCEPT !.bases = parser'.bases]
     /\ last'.op = "pop_base"
        => /\ last'.ok
           /\ Len(parser'.bases) =
                (IF Len(parser.bases) = 0 THEN 0 ELSE Len(parser.bases) - 1)
           /\ \A i \in 1..Len(parser'.bases) : parser'.bases[i] = parser.bases[i]
           /\ parser' = [parser EXCEPT !.bases = parser'.bases]
    ]_vars

\* C12, witness: of two bases pushed at different positions the first is
\* left after a pop.
C12_Witness ==
  /\ last.op = "pop_base"
  /\ parser.bases = <<0>>
  /\ parser.pos = 1
  /\ parser.buf = <<Content.top>>

\* C15: write_pointer at position p appends one task with slot p to the back
\* of the queue and moves the cursor to p + 4; the closure is not run; the
\* buffer, the base stack and the flag are as before.
C15_Scheduling ==
  [][last'.op = "write_pointer"
     => LET q    == parser.scheduled_writes
            now  == parser'.scheduled_writes
        IN /\ last'.ok
           /\ Len(now) = Len(q) + 1
           /\ \A i \in 1..Len(q) : now[i] = q[i]
           /\ now[Len(now)].position = parser.pos
           /\ now[Len(now)].func \in WFuncs
           /\ parser'.pos = parser.pos + 4
           /\ parser'.buf = parser.buf
           /\ parser'.bases = parser.bases
           /\ parser'.big_endian = parser.big_endian
    ]_vars

\* C15, witness: a second slot reserved past the end of the buffer.
C15_Witness ==
  /\ last.op = "write_pointer"
  /\ Len(parser.scheduled_writes) = 2
  /\ parser.scheduled_writes[2].position = 5
  /\ Len(parser.buf) = 1
  /\ parser.pos = 9

(***************************************************************************)
(* The order and the place of what finish_writes emits.                    *)
(***************************************************************************)
\* The buffer as the i-th task of a finish_writes call found it (the call's
\* log is log, the parser it was called on is p).
BufferBefore(p, log, i) == IF i = 1 THEN p.buf ELSE log[i - 1].after.buf

Seeks(func) == \E i \in 1..Len(func) : func[i].op = "seek"

\* C16: every task's closure starts writing at or past the end of the buffer
\* as it is at that moment, whatever writes, seeks and write_pointer calls
\* came before.
C16_EmitsAtTail ==
  [][last'.op = "finish_writes"
     => \A i \in 1..Len(last'.log) :
          last'.log[i].pos >= Len(BufferBefore(parser, last'.log, i))
    ]_vars

\* The closures a closure schedules, in order.
RECURSIVE Nested(_)
Nested(func) ==
  IF func = <<>> THEN <<>>
  ELSE (IF Head(func).op = "write_pointer" THEN <<Head(func).func>> ELSE <<>>)
       \o Nested(Tail(func))

RECURSIVE NestedAll(_)
NestedAll(log) ==
  IF log = <<>> THEN <<>> ELSE Nested(Head(log).func) \o NestedAll(Tail(log))

\* C17: finish_writes runs the closures of the tasks that are in the queue
\* when it is called in the order of the queue, each once (up to the first
\* that fails); each slot is patched before the next closure starts; the
\* parser returned holds none of the tasks that were run, only the ones
\* their closures scheduled.
C17_FifoOnce ==
  [][last'.op = "finish_writes"
     => LET q   == parser.scheduled_writes
            log == last'.log
        IN /\ Len(log) <= Len(q)
           /\ last'.ok => Len(log) = Len(q)
           /\ \A i \in 1..Len(log) :
                /\ log[i].func = q[i].func
                /\ log[i].position = q[i].position
                /\ log[i].ok = (i < Len(log) \/ last'.ok)
                /\ log[i].ok => SlotHolds(log[i].after, q[i].position, log[i].pos)
                /\ i > 1 =>
                     LET r == run_write(log[i - 1].after, q[i].func)
                     IN /\ log[i].pos = position(log[i - 1].after)
                        /\ position(r.p) = log[i].new_pos
                        /\ r.ok = log[i].ok
           /\ last'.ok =>
                /\ Len(parser'.scheduled_writes) = Len(NestedAll(log))
                /\ \A i \in 1..Len(parser'.scheduled_writes) :
                     parser'.scheduled_writes[i].func = NestedAll(log)[i]
    ]_vars

\* C17, witness: two different tasks run by one call, the first of them
\* scheduling another.
C17_Witness ==
  /\ FinishedOk
  /\ Len(last.log) = 2
  /\ last.log[1].func = FuncA
  /\ last.log[2].func = FuncA1
  /\ Len(parser.scheduled_writes) = 1

\* C19: called with the cursor at the end of the buffer and closures that do
\* not seek, finish_writes returns a parser with the base stack and the flag
\* it was called with; the bytes that were in the buffer are as they were,
\* except those of the slots of the tasks it ran; the cursor is where the
\* last closure stopped.
C19_FinishFrame ==
  [][(/\ last'.op = "finish_writes"
      /\ last'.ok
      /\ parser.pos = Len(parser.buf)
      /\ \A j \in 1..Len(parser.scheduled_writes) :
           ~Seeks(parser.scheduled_writes[j].func))
     => LET q     == parser.scheduled_writes
            slots == UNION {q[j].position .. q[j].position + 3 : j \in 1..Len(q)}
        IN /\ parser'.bases = parser.bases
           /\ parser'.big_endian = parser.big_endian
           /\ Len(parser'.buf) >= Len(parser.buf)
           /\ \A i \in 1..Len(parser.buf) :
                (i - 1) \notin slots => parser'.buf[i] = parser.buf[i]
           /\ q # <<>> => parser'.pos = Last(last'.log).new_pos
           /\ q = <<>> => parser' = parser
    ]_vars

\* C19, witness: a task resolved behind a byte written after its slot, with
\* a base on the stack.
C19_Witness ==
  /\ FinishedOk
  /\ Len(last.log) = 1
  /\ last.log[1].pos = 5
  /\ parser.bases = <<5>>
  /\ parser.buf[5] = Content.top
  /\ parser.pos = last.log[1].new_pos

\* C18: for a power of two n, align_seek(n) leaves the position at the least
\* multiple of n that is >= the starting position (the starting position
\* when that is one), never further back, and changes neither the buffer
\* nor the base stack nor the queue, whatever bases are pushed.
C18_AlignSeek ==
  [][(last'.op = "align_seek" /\ IsPowerOfTwo(last'.arg))
     => LET n == last'.arg
            s == parser.pos
        IN /\ last'.ok
           /\ parser'.pos = LeastMultiple(n, s)
           /\ s % n = 0 => parser'.pos = s
           /\ parser'.pos >= s
           /\ parser'.buf = parser.buf
           /\ parser'.bases = parser.bases
           /\ parser'.scheduled_writes = parser.scheduled_writes
           /\ parser' = [parser EXCEPT !.pos = parser'.pos]
    ]_vars

\* C18, witness: the cursor moved past the end of the buffer, over a pushed
\* base, with a task pending.
C18_Witness ==
  /\ last.op = "align_seek"
  /\ last.arg = 4
  /\ parser.pos = 8
  /\ Len(parser.buf) = 5
  /\ parser.bases = <<3>>
  /\ pending_writes(parser)

(***************************************************************************)
(* Reads past the end.                                                     *)
(***************************************************************************)
\* The bytes between the cursor and the end of the buffer.
Remaining(p) ==
  IF p.pos >= Len(p.buf) THEN <<>> ELSE SubSeq(p.buf, p.pos + 1, Len(p.buf))

\* The call recorded in call, made on p, needs bytes that are not there.
NeedsMore(p, call) ==
  LET have == Len(Remaining(p))
  IN CASE call.op = "read_int"         -> call.arg.bytes > have
       [] call.op = "read_int_array"   -> call.arg.count * call.arg.ty.bytes > have
       [] call.op \in {"read_buf", "read_string", "read_parser"}
                                       -> call.arg > have
       [] call.op = "read_pointer"     -> 4 > have
       [] call.op = "read_null_string" -> \A i \in 1..have : Remaining(p)[i] # 0
       [] OTHER                        -> FALSE

\* C14: a read that needs bytes beyond the end of the buffer returns the I/O
\* error, never a value; read_null_string with no 0 between the cursor and
\* the end is such a read.
C14_ReadsPastEndFail ==
  [][NeedsMore(parser, last') => (~last'.ok /\ last'.err = "Io")]_vars

(***************************************************************************)
(* The sub-parser machine: a parent parser and a second parser, which is   *)
(* read out of the parent by read_parser or was built by the caller, is    *)
(* worked on, and is written into the parent by write_parser.              *)
(***************************************************************************)
PB == [op |-> "push_base"]

PPB == [op |-> "pop_base"]

SBE(be) == [op |-> "set_big_endian", be |-> be]

\* One call on a parser.
call_on(p, o) ==
  CASE o.op = "push_base"      -> Ok(push_base(p), 0)
    [] o.op = "pop_base"       -> Ok(pop_base(p), 0)
    [] o.op = "set_big_endian" -> Ok(set_big_endian(p, o.be), 0)
    [] OTHER                   -> call_write(p, o)

SubCalls ==
  {PB, PPB, SK(Start(0)), SK(End(0)), W(Content.top), WP(FuncA1), WP(FuncA),
   SBE(TRUE), SBE(FALSE)}

ParentBuf == <<7, 8, 9>>

\* Parsers a caller has built before handing them to write_parser.
SubStates ==
  { new,
    write_int(new, U8, Content.top).p,
    write_pointer(new, FuncA1).p,
    write_pointer(write_int(new, U8, Content.top).p, FuncA).p,
    write_pointer(new, FuncFail).p }

SubInit ==
  /\ \E at \in 0..Len(ParentBuf) + 1, bs \in {<<>>, <<1>>}, be \in BOOLEAN :
       parser = [from_buf(ParentBuf) EXCEPT !.pos = at, !.bases = bs,
                                            !.big_endian = be]
  /\ sub \in {NoSub} \cup {[live |-> TRUE, p |-> q] : q \in SubStates}
  /\ owned = TRUE
  /\ last = NoCall
  /\ steps = 0
  /\ script = <<>>

\* let mut sub = parser.read_parser(length)?;
SubReadParser ==
  /\ last.op = "none"
  /\ \E length \in ReadLengths, eof \in EofChoices :
       LET r == read_parser(parser, length, eof)
       IN /\ parser' = r.p
          /\ last' = [Call("read_parser", r.ok, r.err) EXCEPT !.arg = length]
          /\ sub' = IF r.ok THEN [live |-> TRUE, p |-> r.val] ELSE sub
  /\ UNCHANGED <<owned, steps, script>>

\* parser.write_parser(sub)?;  sub is moved: what is kept of it is the
\* parser its to_buf call ended with.
SubWriteParser ==
  /\ steps < MaxSubOps
  /\ sub.live
  /\ LET r == write_parser(parser, sub.p)
         f == to_buf(sub.p)
     IN /\ parser' = r.p
        /\ last' = [Call("write_parser", r.ok, r.err) EXCEPT
                      !.log = f.log, !.out = f.bytes]
        /\ sub' = [live |-> FALSE, p |-> f.p]
  /\ steps' = steps + 1
  /\ UNCHANGED <<owned, script>>

OnParent ==
  /\ steps < MaxSubOps
  /\ \E o \in SubCalls :
       LET r == call_on(parser, o)
       IN /\ parser' = r.p
          /\ last' = Call("on_parent", r.ok, r.err)
  /\ steps' = steps + 1
  /\ UNCHANGED <<owned, script, sub>>

OnSub ==
  /\ steps < MaxSubOps
  /\ sub.live
  /\ \E o \in SubCalls :
       LET r == call_on(sub.p, o)
       IN /\ sub' = [sub EXCEPT !.p = r.p]
          /\ last' = Call("on_sub", r.ok, r.err)
  /\ steps' = steps + 1
  /\ UNCHANGED <<owned, script, parser>>

SubNext ==
  \/ SubReadParser
  \/ SubWriteParser
  \/ OnParent
  \/ OnSub

SpecSub == SubInit /\ [][SubNext]_vars

\* C11: read_parser(length) gives a parser over exactly the length bytes at
\* the parent's cursor, at position 0, with no bases and no tasks, and moves
\* the parent's cursor by length; a call on the sub-parser changes nothing
\* of the parent, and a call on the parent nothing of the sub-parser.
C11_SubParserIsolated ==
  [][/\ (last'.op = "read_parser" /\ last'.ok)
        => LET length == last'.arg
           IN /\ sub'.live
              /\ sub'.p.buf = SubSeq(parser.buf, parser.pos + 1,
                                     parser.pos + length)
              /\ Len(sub'.p.buf) = length
              /\ sub'.p.pos = 0
              /\ sub'.p.bases = <<>>
              /\ sub'.p.scheduled_writes = <<>>
              /\ parser' = [parser EXCEPT !.pos = parser.pos + length]
     /\ last'.op = "on_sub"
        => /\ parser'.buf = parser.buf
           /\ parser'.pos = parser.pos
           /\ parser'.bases = parser.bases
           /\ parser'.scheduled_writes = parser.scheduled_writes
           /\ parser'.big_endian = parser.big_endian
     /\ last'.op = "on_parent" => sub' = sub
    ]_vars

\* C11, witness: a base pushed in a sub-parser read from the middle of a
\* parent that has a base of its own.
C11_Witness ==
  /\ last.op = "on_sub"
  /\ sub.live
  /\ sub.p.buf = <<8, 9>>
  /\ sub.p.bases = <<0>>
  /\ parser.bases = <<1>>
  /\ parser.pos = 3

\* C13: write_parser(p) resolves every pending write of p, those its
\* closures schedule included, and writes the bytes p ends with at the
\* parent's cursor: the parent holds them at [pos, pos + len), its cursor
\* has moved by len, and its bases, flag and queue are as they were.
C13_WriteParserResolves ==
  [][(last'.op = "write_parser" /\ last'.ok)
     => LET final == sub'.p
            n     == Len(final.buf)
        IN /\ ~pending_writes(final)
           /\ SubSeq(parser'.buf, parser.pos + 1, parser.pos + n) = final.buf
           /\ parser'.pos = parser.pos + n
           /\ parser'.bases = parser.bases
           /\ parser'.big_endian = parser.big_endian
           /\ parser'.scheduled_writes = parser.scheduled_writes
    ]_vars

(***************************************************************************)
(* The cursor at its width.  A position is a u64 and the value of a slot   *)
(* a u32; here they are written as their 16-bit digits, least significant  *)
(* first (4 digits for a u64, 2 for a u32), so that positions of 2^32 and  *)
(* more can be told from their low 32 bits.  A parser is the record of     *)
(* before with such a position; what touches the bytes is done by the      *)
(* operators of before at the same position.                               *)
(***************************************************************************)
Limb == 65536

\* n as u64, for the n the operators of before work with
u64(n) == <<n % Limb, n \div Limb, 0, 0>>

\* v as u64, for a u32 v
as_u64(v) == v \o <<0, 0>>

\* v as u32, for a u64 v, had the cast saturated
as_u32_saturating(v) ==
  IF v[3] = 0 /\ v[4] = 0 THEN <<v[1], v[2]>> ELSE <<Limb - 1, Limb - 1>>

\* v as u32, for a u64 v: the low 32 bits
as_u32_of_u64(v) == <<v[1], v[2]>>

\* a + b, wrapping at the width of a
RECURSIVE add_digits(_, _, _)
add_digits(a, b, carry) ==
  IF a = <<>> THEN <<>>
  ELSE LET sum == Head(a) + Head(b) + carry
       IN <<sum % Limb>> \o add_digits(Tail(a), Tail(b), sum \div Limb)

add_u64(a, b) == add_digits(a, b, 0)

\* The position is one a vector can be indexed at in the model.
Near(v) == v[2] = 0 /\ v[3] = 0 /\ v[4] = 0 /\ v[1] <= 2 * MaxBufLen

\* The parser with its position as the operators of before take it, and back.
narrow(p) == [p EXCEPT !.pos = p.pos[1]]

widen(q) == [q EXCEPT !.pos = u64(q.pos)]

\* u32::to_le_bytes, u32::to_be_bytes, u32::from_le_bytes, u32::from_be_bytes
u32_to_le_bytes(v) ==
  <<v[1] % 256, v[1] \div 256, v[2] % 256, v[2] \div 256>>

u32_to_be_bytes(v) == Reverse(u32_to_le_bytes(v))

u32_from_le_bytes(bytes) ==
  <<bytes[1] + 256 * bytes[2], bytes[3] + 256 * bytes[4]>>

u32_from_be_bytes(bytes) == u32_from_le_bytes(Reverse(bytes))

\* seek(SeekFrom::Start(n))
seek_start(p, n) == Ok([p EXCEPT !.pos = n], 0)

\* write_u32 at a position near the start
write_u32(p, data) ==
  LET bytes == IF p.big_endian THEN u32_to_be_bytes(data)
               ELSE u32_to_le_bytes(data)
  IN Ok(widen(write_all(narrow(p), bytes)), 0)

\* read_u32: past every vector of the model there is nothing to read
read_u32(p, eof) ==
  IF ~Near(p.pos)
  THEN Err([p EXCEPT !.pos = IF eof = "end" THEN u64(Len(p.buf)) ELSE p.pos],
           "Io")
  ELSE LET r == read_exact(narrow(p), 4, eof)
       IN IF ~r.ok THEN Err(widen(r.p), r.err)
          ELSE Ok(widen(r.p), IF p.big_endian THEN u32_from_be_bytes(r.val)
                              ELSE u32_from_le_bytes(r.val))

\* write_pointer with the position at its width
write_pointer_u64(p, func) ==
  Ok([p EXCEPT !.scheduled_writes = Append(@, [func |-> func,
                                                position |-> p.pos]),
               !.pos = add_u64(p.pos, u64(4))], 0)

\* (write.func)(&mut new): a closure that writes nothing runs anywhere, one
\* that writes runs near the start.
run_write_u64(p, func) ==
  IF func = <<>> THEN Ok(p, 0)
  ELSE LET r == run_write(narrow(p), func)
       IN [r EXCEPT !.p = widen(r.p)]

\* The end of one iteration of finish_writes' loop.
patch_u64(p, write, pos, new_pos) ==
  LET at_slot == seek_start(p, write.position).p
      written == write_u32(at_slot, as_u32_of_u64(pos)).p
  IN seek_start(written, new_pos).p

\* The loop of finish_writes.
RECURSIVE drain_u64(_, _, _)
drain_u64(p, writes, log) ==
  IF writes = <<>> THEN [ok |-> TRUE, err |-> "none", p |-> p, log |-> log]
  ELSE LET write == Head(writes)
           pos   == p.pos
           r     == run_write_u64(p, write.func)
           entry == [position |-> write.position, func |-> write.func,
                     pos |-> pos, ok |-> r.ok, new_pos |-> r.p.pos]
       IN IF ~r.ok
          THEN [ok |-> FALSE, err |-> r.err, p |-> r.p,
                log |-> Append(log, entry @@ [after |-> r.p])]
          ELSE LET q == patch_u64(r.p, write, pos, r.p.pos)
               IN drain_u64(q, Tail(writes), Append(log, entry @@ [after |-> q]))

finish_writes_u64(self) ==
  drain_u64([self EXCEPT !.scheduled_writes = <<>>], self.scheduled_writes,
            <<>>)

\* read_pointer with a closure that returns the position it is run at.
read_pointer_u64(p, eof) ==
  LET pos == add_u64(p.pos, u64(4))
      f   == read_u32(p, eof)
  IN IF ~f.ok THEN f
     ELSE LET base   == IF f.p.bases = <<>> THEN u64(0) ELSE Last(f.p.bases)
              offset == add_u64(as_u64(f.val), base)
              at     == seek_start(f.p, offset).p
          IN Ok(seek_start(at, pos).p, at.pos)

(***************************************************************************)
(* The width machine: a pointer is scheduled, the cursor is put at T, the  *)
(* task is resolved there, and the slot is read back with read_pointer.    *)
(***************************************************************************)
\* Closures scheduled: one that emits nothing, one that writes a byte.
WideFuncs == {<<>>, FuncA1}

\* Start positions: near the slot, around 2^31, around 2^32, and far above.
WideTargets ==
  { u64(0), u64(4), u64(6), u64(9),
    <<65535, 32767, 0, 0>>, <<0, 32768, 0, 0>>, <<65535, 65535, 0, 0>>,
    <<0, 0, 1, 0>>, <<6, 0, 1, 0>>, <<258, 3, 1, 0>>, <<0, 0, 0, 1>>,
    <<65535, 65535, 65535, 65535>> }

WideInit ==
  /\ \E n \in 0..2, be \in BOOLEAN :
       parser = widen([from_buf(Filled(255, n)) EXCEPT !.pos = n,
                                                       !.big_endian = be])
  /\ owned = TRUE
  /\ last = NoCall
  /\ steps = 0
  /\ script = <<>>
  /\ sub = NoSub

WideWritePointer ==
  /\ last.op = "none"
  /\ \E f \in WideFuncs :
       LET r == write_pointer_u64(parser, f)
       IN /\ parser' = r.p
          /\ last' = Call("write_pointer", r.ok, r.err)
  /\ steps' = steps + 1
  /\ UNCHANGED <<owned, script, sub>>

WideSeek ==
  /\ last.op = "write_pointer"
  /\ \E T \in WideTargets :
       LET r == seek_start(parser, T)
       IN /\ parser' = r.p
          /\ last' = Call("seek", r.ok, r.err)
  /\ steps' = steps + 1
  /\ UNCHANGED <<owned, script, sub>>

\* A closure that writes is run near the start only: further out it would
\* need a vector of that length.
WideFinishWrites ==
  /\ last.op = "seek"
  /\ \A i \in 1..Len(parser.scheduled_writes) :
       parser.scheduled_writes[i].func = <<>> \/ Near(parser.pos)
  /\ LET r == finish_writes_u64(parser)
     IN /\ parser' = r.p
        /\ owned' = r.ok
        /\ last' = [Call("finish_writes", r.ok, r.err) EXCEPT !.log = r.log]
  /\ steps' = steps + 1
  /\ UNCHANGED <<script, sub>>

\* seek(SeekFrom::Start(slot)); the log of the finish_writes call is kept.
WideSeekSlot ==
  /\ last.op = "finish_writes"
  /\ owned
  /\ LET r == seek_start(parser, last.log[1].position)
     IN /\ parser' = r.p
        /\ last' = [Call("seek_slot", r.ok, r.err) EXCEPT !.log = last.log]
  /\ steps' = steps + 1
  /\ UNCHANGED <<owned, script, sub>>

\* read_pointer(|r| Ok(r.position())); out is what the closure returned.
WideReadPointer ==
  /\ last.op = "seek_slot"
  /\ \E eof \in EofChoices :
       LET r == read_pointer_u64(parser, eof)
       IN /\ parser' = r.p
          /\ last' = [Call("read_pointer", r.ok, r.err) EXCEPT
                        !.log = last.log,
                        !.out = IF r.ok THEN Some(r.val) ELSE None]
  /\ steps' = steps + 1
  /\ UNCHANGED <<owned, script, sub>>

WideNext ==
  \/ WideWritePointer
  \/ WideSeek
  \/ WideFinishWrites
  \/ WideSeekSlot
  \/ WideReadPointer

SpecWide == WideInit /\ [][WideNext]_vars

\* Byte i (0 the least significant) of the u64 T.
ByteOf(T, i) ==
  (T[(i \div 2) + 1] \div (IF i % 2 = 0 THEN 1 ELSE 256)) % 256

Below32(T) == T[3] = 0 /\ T[4] = 0

\* C20: the slot of a task resolved at T holds the low 32 bits of T, that is
\* T mod 2^32, and no error is reported whatever T is; read at its slot with
\* no base pushed and the same flag, the pointer's closure runs at T when
\* T < 2^32 and at T mod 2^32 otherwise.
C20_PointerWidth ==
  /\ last.op = "finish_writes"
     => LET T    == last.log[1].pos
            slot == last.log[1].position[1]
        IN /\ last.ok
           /\ \A i \in 0..3 :
                parser.buf[slot + 1 + (IF parser.big_endian THEN 3 - i ELSE i)]
                  = ByteOf(T, i)
  /\ last.op = "read_pointer"
     => LET T == last.log[1].pos
        IN /\ last.ok
           /\ last.out.some
           /\ Below32(T) => last.out.bytes = T
           /\ ~Below32(T) => /\ last.out.bytes = <<T[1], T[2], 0, 0>>
                             /\ last.out.bytes # T

\* C20, witness: a task resolved at 2^32 + 6 read back at 6.
C20_Witness ==
  /\ last.op = "read_pointer"
  /\ last.log[1].pos = <<6, 0, 1, 0>>
  /\ last.out.bytes = u64(6)

\* C20, witness below 2^32: a task resolved at 2^32 - 1 read back there.
C20_WitnessBelow ==
  /\ last.op = "read_pointer"
  /\ last.log[1].pos = <<65535, 65535, 0, 0>>
  /\ last.out.bytes = <<65535, 65535, 0, 0>>

====
